---- MODULE Spec2Model ----
(***************************************************************************)
(* The streaming transcription session of jinming2/AIMeetingAgent.         *)
(*                                                                         *)
(* Two implementations of the /ws/transcribe handler exist in the source:  *)
(*   variant = "queue"   backend/app/main.py: recognition callbacks put    *)
(*                       messages on message_queue / processing_queue and  *)
(*                       the process_messages task writes them;            *)
(*   variant = "direct"  backend/speechtotext/app/main.py: recognition     *)
(*                       callbacks create one safe_send task per message.  *)
(* One session is modelled.  The handler coroutine (pc), the dispatcher    *)
(* task (task) and the safe_send tasks (sendTasks) share one event loop:   *)
(* a task runs only while the handler is suspended at an await.  The       *)
(* recognition engine calls back from its own threads at any time.         *)
(***************************************************************************)
EXTENDS Integers, Sequences, FiniteSets, TLC

\* Bounds of the model.
\* What one session is given from outside, counted together: inbound frames,
\* events raised by the recognition engine, and failures of the collaborators
\* (a send or an engine call that raises, a cancellation).
MaxInputs == 3
\* The calls of process_final_text evaluated on their own.
MaxCalls == 2

VARIABLES
    variant,            \* which implementation of the handler runs
    pc,                 \* position of the handler coroutine websocket_transcribe
    exitPath,           \* why the handler left its normal path ("none" while it has not)
    is_listening,       \* the is_listening flag
    stream,             \* the push audio stream: "none", "open", "closed"
    recognizer,         \* the speech recognizer: "none", "created", "running", "stopped"
    stopCalls,          \* calls of stop_continuous_recognition
    closeCalls,         \* calls of stream.close
    raised,             \* the calls of the finally block that raised
    wsCloseCalls,       \* calls of websocket.close
    client_state,       \* websocket.client_state
    sockOpen,           \* the socket can still carry a frame to the client
    appClosed,          \* the handler has sent its close frame
    task,               \* position of message_processor_task (queue variant)
    dmsg,               \* the message the dispatcher is writing
    corr,               \* the utterance whose correction call is in flight (or was, when cancelled)
    message_queue,      \* queue.Queue of outbound messages
    processing_queue,   \* asyncio.Queue of final utterances awaiting process_final_text
    qseq,               \* number of puts on message_queue so far
    sendTasks,          \* safe_send tasks created and not finished (direct variant)
    sent,               \* what the client has observed, in order, with the writer
    lost,               \* messages taken for writing that never reached the client
    written,            \* what was pushed to the audio stream, in order
    nEvt,               \* events raised by the engine so far
    nInputs,            \* frames, events and failures given to the session so far
    stopEvt,            \* events raised by the engine when the stop frame was read
    calls,              \* the calls of process_final_text evaluated on their own
    conns,              \* concurrent connections: each handler invocation's locals
    queues,             \* the queue.Queue objects constructed so far, by identity
    streams,            \* the PushAudioInputStream objects constructed so far, by identity
    clients,            \* what the client of each connection has observed
    state,              \* the MeetingState of one conversation (summary_agent)
    log                 \* the summary operations applied so far, with their inputs

vars == <<variant, pc, exitPath, is_listening, stream, recognizer, stopCalls,
          closeCalls, raised, wsCloseCalls, client_state, sockOpen, appClosed, task, dmsg,
          corr, message_queue, processing_queue, qseq, sendTasks, sent, lost,
          written, nEvt, nInputs, stopEvt, calls, conns, queues, streams, clients,
          state, log>>

isolationVars == <<conns, queues, streams, clients>>
summaryVars == <<state, log>>

queueVars == <<task, dmsg, corr, message_queue, processing_queue, qseq>>

-----------------------------------------------------------------------------
\* Data

Frames == {<<>>, <<0>>, <<1>>, <<0, 0>>}
Texts == {"", "a"}
Languages == {"en-US"}
NoMsg == [type |-> "none", text |-> "", original_text |-> "", language |-> "",
          offset |-> 0, duration |-> 0, evt |-> 0, seq |-> 0]
NoUtt == [text |-> "", language |-> "", offset |-> 0, duration |-> 0, evt |-> 0]

\* evt (the engine event a message stems from) and seq (its position among the
\* puts on message_queue) are bookkeeping fields; the client does not see them.
StatusMsg == [NoMsg EXCEPT !.type = "status", !.text = "Recognition started"]
ErrorMsg(text) == [NoMsg EXCEPT !.type = "error", !.text = text]
InterimMsg(text, e) == [NoMsg EXCEPT !.type = "interim", !.text = text, !.evt = e]
RecognitionErrorMsg(e) == [NoMsg EXCEPT !.type = "error", !.text = "Recognition error", !.evt = e]
FinalMsg(u) == [NoMsg EXCEPT !.type = "final", !.text = u.text, !.language = u.language,
                !.offset = u.offset, !.duration = u.duration, !.evt = u.evt]
FinalOriginalMsg(u) == [FinalMsg(u) EXCEPT !.type = "final_original"]
FinalCorrectedMsg(u, corrected) ==
    [FinalMsg(u) EXCEPT !.type = "final_corrected", !.text = corrected,
                        !.original_text = u.text]
Utterance(text, lang, e) ==
    [text |-> text, language |-> lang, offset |-> e, duration |-> 1, evt |-> e]

\* get_corrected_text's test `not text or len(text.strip()) == 0`: true of the
\* empty text and of a text of white space.
IsBlank(text) == text \in {"", " "}

\* Variant of IsStopFrame that takes every frame of zero bytes for the stop signal.
IsStopFrame_allZero(data) == \A i \in 1..Len(data) : data[i] = 0

\* The inbound loop's stop test: `not data or (len(data) == 1 and data[0] == 0)`.
IsStopFrame(data) == data = <<>> \/ (Len(data) = 1 /\ data[1] = 0)
\* Concurrent connections to /ws/transcribe; a connection not yet accepted has
\* no objects.
Connections == {1, 2}
NoConn == [phase |-> "idle", message_queue |-> 0, stream |-> 0]

\* Text is a sequence of characters; NL is the line separator.
NL == "\n"
NoText == <<>>

\* A JSON text: what json.loads makes of it (ok: it parses; root and sections:
\* the value) and whether it is laid out as json.dumps lays it out (canonical).
\* root "none" stands for Python's None in MeetingState.structured.
JsonText(ok, canonical, root, sections) ==
    [ok |-> ok, canonical |-> canonical, root |-> root, sections |-> sections]
NoneStructured == JsonText(FALSE, TRUE, "none", <<>>)

\* The MeetingState a conversation starts with: no memory, no outline.
InitialState == [transcript |-> NoText, structured |-> NoneStructured, memory |-> NoText]

-----------------------------------------------------------------------------
\* The client connection

\* A frame can still reach the client.
CanSend == sockOpen /\ ~appClosed /\ client_state = "CONNECTED"

\* websocket.send_json returns ("ok") or raises: with the socket still open
\* ("transient") or because the client is gone ("closed").
SendOutcomes ==
    IF CanSend
    THEN {"ok"} \cup (IF nInputs < MaxInputs THEN {"transient", "closed"} ELSE {})
    ELSE {"closed"}

\* The socket and the fault count after a send that ended with outcome o.
SocketAfterSend(o) ==
    /\ sockOpen' = (sockOpen /\ o # "closed")
    /\ nInputs' = IF o = "transient" \/ (o = "closed" /\ CanSend) THEN nInputs + 1 ELSE nInputs

Delivered(m, by) == Append(sent, [m |-> m, by |-> by])

\* The handler is suspended at an await, so other tasks of the loop may run.
Yielded == pc \in {"status_w", "recv", "err_w", "exc_w", "td_ws_w", "closed"}

\* Writes to the connection that are in progress.
Writers ==
    (IF pc \in {"status_w", "err_w", "exc_w"} THEN {<<"handler", 0>>} ELSE {})
    \cup (IF task = "sending" THEN {<<"dispatcher", 0>>} ELSE {})
    \cup {<<"send_task", i>> : i \in {j \in 1..Len(sendTasks) : sendTasks[j].st = "sending"}}

-----------------------------------------------------------------------------
\* Init: the state after websocket.accept() and the handler's local definitions.

Init ==
    /\ variant \in {"queue", "direct"}
    /\ pc = "setup"
    /\ exitPath = "none"
    /\ is_listening = TRUE
    /\ stream = "none"
    /\ recognizer = "none"
    /\ stopCalls = 0
    /\ closeCalls = 0
    /\ raised = {}
    /\ wsCloseCalls = 0
    /\ client_state = "CONNECTED"
    /\ sockOpen = TRUE
    /\ appClosed = FALSE
    /\ task = "none"
    /\ dmsg = NoMsg
    /\ corr = NoUtt
    /\ message_queue = <<>>
    /\ processing_queue = <<>>
    /\ qseq = 0
    /\ sendTasks = <<>>
    /\ sent = <<>>
    /\ lost = {}
    /\ written = <<>>
    /\ nEvt = 0
    /\ nInputs = 0
    /\ stopEvt = 0
    /\ calls = <<>>
    /\ conns = [c \in Connections |-> NoConn]
    /\ queues = <<>>
    /\ streams = <<>>
    /\ clients = [c \in Connections |-> <<>>]
    /\ state = InitialState
    /\ log = <<>>

-----------------------------------------------------------------------------
\* The handler coroutine: set-up

\* Creating the push stream, the recognizer and (queue variant) the dispatcher
\* task.  outcome: "ok", "stream_raises", "recognizer_raises".
Setup(outcome) ==
    /\ pc = "setup"
    /\ outcome # "ok" => nInputs < MaxInputs
    /\ stream' = IF outcome = "stream_raises" THEN "none" ELSE "open"
    /\ recognizer' = IF outcome = "ok" THEN "created" ELSE "none"
    /\ task' = IF outcome = "ok" /\ variant = "queue" THEN "ready" ELSE "none"
    /\ pc' = IF outcome = "ok" THEN "start" ELSE "exc_w"
    /\ exitPath' = IF outcome = "ok" THEN "none" ELSE "setup_error"
    /\ nInputs' = IF outcome = "ok" THEN nInputs ELSE nInputs + 1
    /\ UNCHANGED <<variant, calls, isolationVars, summaryVars, stopEvt, raised, is_listening, stopCalls, closeCalls, wsCloseCalls,
                   client_state, sockOpen, appClosed, dmsg, corr, message_queue,
                   processing_queue, qseq, sendTasks, sent, lost, written, nEvt>>

\* Connecting the callbacks and start_continuous_recognition(); on success the
\* handler goes on to send the status message.
Start(raises) ==
    /\ pc = "start"
    /\ raises => nInputs < MaxInputs
    /\ recognizer' = IF raises THEN recognizer ELSE "running"
    /\ pc' = IF raises THEN "exc_w" ELSE "status_w"
    /\ exitPath' = IF raises THEN "setup_error" ELSE "none"
    /\ nInputs' = IF raises THEN nInputs + 1 ELSE nInputs
    /\ UNCHANGED <<variant, calls, isolationVars, summaryVars, stopEvt, raised, is_listening, stream, stopCalls, closeCalls, wsCloseCalls,
                   client_state, sockOpen, appClosed, written,
                   sendTasks, sent, lost, nEvt>>
    /\ UNCHANGED queueVars

\* The test of `while is_listening` at the top of the inbound loop.
LoopTopPc == IF is_listening THEN "recv" ELSE "td_mark"
LoopTopExit == IF is_listening THEN exitPath ELSE "not_listening"

\* The handler's own sends complete: the status message (status_w), the error
\* report after a failed stream.write (err_w), and the best-effort error report
\* of the two exception handlers (exc_w).
HandlerMsg ==
    CASE pc = "status_w" -> StatusMsg
      [] pc = "err_w" -> ErrorMsg("Error processing audio")
      [] pc = "exc_w" /\ exitPath = "loop_error" -> ErrorMsg("Error processing audio")
      [] OTHER -> ErrorMsg("Error")
HandlerWriter ==
    IF pc = "err_w" \/ (pc = "exc_w" /\ exitPath = "loop_error")
    THEN "inbound_loop" ELSE "session"

HandlerSendDone(o) ==
    /\ pc \in {"status_w", "err_w", "exc_w"}
    /\ o \in SendOutcomes
    /\ SocketAfterSend(o)
    /\ sent' = IF o = "ok" THEN Delivered(HandlerMsg, HandlerWriter) ELSE sent
    /\ pc' = CASE pc = "exc_w" -> "td_mark"
               [] o # "ok" -> "exc_w"
               [] OTHER -> LoopTopPc
    /\ exitPath' = CASE pc = "exc_w" -> exitPath
                     [] o # "ok" /\ pc = "status_w" -> "status_error"
                     [] o # "ok" -> "loop_error"
                     [] OTHER -> LoopTopExit
    /\ UNCHANGED <<variant, calls, isolationVars, summaryVars, stopEvt, raised, is_listening, stream, recognizer, stopCalls, closeCalls,
                   wsCloseCalls, client_state, appClosed, written,
                   sendTasks, lost, nEvt>>
    /\ UNCHANGED queueVars

-----------------------------------------------------------------------------
\* The handler coroutine: the inbound loop

\* convert_audio_data (direct variant): the frame wrapped in a WAV container, or
\* the frame itself when the conversion raises.  A pushed chunk is recorded as
\* the frame with a flag for the container.
convert_audio_data(data, fails) == [wav |-> ~fails, pcm |-> data]
Chunk(data, convFails) ==
    IF variant = "direct" THEN convert_audio_data(data, convFails)
    ELSE [wav |-> FALSE, pcm |-> data]

\* Variant of RecvFrame in which a failed stream.write ends the inbound loop.
RecvFrame_fatal(data, convFails, writeRaises) ==
    /\ pc = "recv"
    /\ nInputs < MaxInputs
    /\ sockOpen /\ client_state = "CONNECTED"
    /\ IF IsStopFrame(data)
       THEN /\ ~convFails /\ ~writeRaises
            /\ pc' = "td_mark"
            /\ exitPath' = "stop"
            /\ nInputs' = nInputs + 1
            /\ stopEvt' = nEvt
            /\ UNCHANGED written
       ELSE /\ convFails => variant = "direct"
            /\ writeRaises => nInputs + 1 < MaxInputs
            /\ UNCHANGED stopEvt
            /\ written' = IF writeRaises THEN written
                          ELSE Append(written, Chunk(data, convFails))
            /\ nInputs' = IF writeRaises THEN nInputs + 2 ELSE nInputs + 1
            /\ pc' = IF writeRaises THEN "exc_w" ELSE LoopTopPc
            /\ exitPath' = IF writeRaises THEN "loop_error" ELSE LoopTopExit
    /\ UNCHANGED <<variant, calls, isolationVars, summaryVars, raised, is_listening, stream, recognizer, stopCalls, closeCalls,
                   wsCloseCalls, client_state, sockOpen, appClosed,
                   sendTasks, sent, lost, nEvt>>
    /\ UNCHANGED queueVars

\* Variant of RecvFrame that pushes the stop frame to the stream before it
\* leaves the loop.
RecvFrame_writesStop(data, convFails, writeRaises) ==
    /\ pc = "recv"
    /\ nInputs < MaxInputs
    /\ sockOpen /\ client_state = "CONNECTED"
    /\ ~writeRaises
    /\ convFails => (variant = "direct" /\ ~IsStopFrame(data))
    /\ written' = Append(written, Chunk(data, convFails))
    /\ nInputs' = nInputs + 1
    /\ stopEvt' = IF IsStopFrame(data) THEN nEvt ELSE stopEvt
    /\ pc' = IF IsStopFrame(data) THEN "td_mark" ELSE LoopTopPc
    /\ exitPath' = IF IsStopFrame(data) THEN "stop" ELSE LoopTopExit
    /\ UNCHANGED <<variant, calls, isolationVars, summaryVars, raised, is_listening, stream, recognizer, stopCalls, closeCalls,
                   wsCloseCalls, client_state, sockOpen, appClosed,
                   sendTasks, sent, lost, nEvt>>
    /\ UNCHANGED queueVars

\* receive_bytes returned a frame: the stop test, then stream.write.
RecvFrame(data, convFails, writeRaises) ==
    /\ pc = "recv"
    /\ nInputs < MaxInputs
    /\ sockOpen /\ client_state = "CONNECTED"
    /\ IF IsStopFrame(data)
       THEN /\ ~convFails /\ ~writeRaises
            /\ pc' = "td_mark"
            /\ exitPath' = "stop"
            /\ nInputs' = nInputs + 1
            /\ stopEvt' = nEvt
            /\ UNCHANGED written
       ELSE /\ convFails => variant = "direct"
            /\ writeRaises => nInputs + 1 < MaxInputs
            /\ UNCHANGED stopEvt
            /\ written' = IF writeRaises THEN written
                          ELSE Append(written, Chunk(data, convFails))
            /\ nInputs' = IF writeRaises THEN nInputs + 2 ELSE nInputs + 1
            /\ pc' = IF writeRaises /\ variant = "queue" THEN "err_w" ELSE LoopTopPc
            /\ exitPath' = IF writeRaises /\ variant = "queue" THEN exitPath ELSE LoopTopExit
    /\ UNCHANGED <<variant, calls, isolationVars, summaryVars, raised, is_listening, stream, recognizer, stopCalls, closeCalls,
                   wsCloseCalls, client_state, sockOpen, appClosed,
                   sendTasks, sent, lost, nEvt>>
    /\ UNCHANGED queueVars

\* Variant of RecvTimeout in which the timeout is handled like any other
\* exception of the receive.
RecvTimeout_breaks ==
    /\ pc = "recv"
    /\ pc' = "exc_w"
    /\ exitPath' = "loop_error"
    /\ UNCHANGED <<variant, calls, isolationVars, summaryVars, stopEvt, raised, is_listening, stream, recognizer, stopCalls,
                   closeCalls, wsCloseCalls, client_state, sockOpen, appClosed, written,
                   nInputs, sendTasks, sent, lost, nEvt>>
    /\ UNCHANGED queueVars

\* asyncio.TimeoutError of the bounded receive: `continue`.
RecvTimeout ==
    /\ pc = "recv"
    /\ pc' = LoopTopPc
    /\ exitPath' = LoopTopExit
    /\ UNCHANGED <<variant, calls, isolationVars, summaryVars, stopEvt, raised, is_listening, stream, recognizer, stopCalls, closeCalls,
                   wsCloseCalls, client_state, sockOpen, appClosed, written, nInputs, sendTasks, sent, lost, nEvt>>
    /\ UNCHANGED queueVars

\* WebSocketDisconnect: the client closed the connection.
RecvDisconnect ==
    /\ pc = "recv"
    /\ client_state' = "DISCONNECTED"
    /\ sockOpen' = FALSE
    /\ pc' = "td_mark"
    /\ exitPath' = "disconnect"
    /\ UNCHANGED <<variant, calls, isolationVars, summaryVars, stopEvt, raised, is_listening, stream, recognizer, stopCalls, closeCalls,
                   wsCloseCalls, appClosed, written, nInputs,
                   sendTasks, sent, lost, nEvt>>
    /\ UNCHANGED queueVars

\* Any other exception of the receive (for instance a text frame): the handler
\* tries to report it and leaves the loop.
RecvError ==
    /\ pc = "recv"
    /\ nInputs < MaxInputs
    /\ nInputs' = nInputs + 1
    /\ pc' = "exc_w"
    /\ exitPath' = "loop_error"
    /\ UNCHANGED <<variant, calls, isolationVars, summaryVars, stopEvt, raised, is_listening, stream, recognizer, stopCalls, closeCalls,
                   wsCloseCalls, client_state, sockOpen, appClosed, written, sendTasks, sent, lost, nEvt>>
    /\ UNCHANGED queueVars

\* The handler task is cancelled from outside while it awaits: CancelledError
\* passes the `except Exception` clauses (the bare `except:` around the error
\* report swallows it) and the finally block runs.  Cancelled while awaiting
\* websocket.close(), the handler ends at once.
Cancel ==
    /\ nInputs < MaxInputs
    /\ pc \in {"status_w", "recv", "err_w", "exc_w", "td_ws_w"}
    /\ nInputs' = nInputs + 1
    /\ pc' = IF pc = "td_ws_w" THEN "closed" ELSE "td_mark"
    /\ exitPath' = IF exitPath = "none" THEN "cancel" ELSE exitPath
    /\ UNCHANGED <<variant, calls, isolationVars, summaryVars, stopEvt, raised, is_listening, stream, recognizer, stopCalls, closeCalls,
                   wsCloseCalls, client_state, sockOpen, appClosed, written,
                   sendTasks, sent, lost, nEvt>>
    /\ UNCHANGED queueVars

-----------------------------------------------------------------------------
\* The handler coroutine: the finally block

\* Variant of TdMark in which the finally block leaves the flag as it is.
TdMark_flagUntouched ==
    /\ pc = "td_mark"
    /\ pc' = "td_cancel"
    /\ UNCHANGED <<variant, calls, isolationVars, summaryVars, stopEvt, raised, exitPath, is_listening, stream, recognizer, stopCalls,
                   closeCalls, wsCloseCalls, client_state, sockOpen, appClosed, written,
                   nInputs, sendTasks, sent, lost, nEvt>>
    /\ UNCHANGED queueVars

\* `is_listening = False`
TdMark ==
    /\ pc = "td_mark"
    /\ is_listening' = FALSE
    /\ pc' = "td_cancel"
    /\ UNCHANGED <<variant, calls, isolationVars, summaryVars, stopEvt, raised, exitPath, stream, recognizer, stopCalls, closeCalls,
                   wsCloseCalls, client_state, sockOpen, appClosed, written, nInputs, sendTasks, sent, lost, nEvt>>
    /\ UNCHANGED queueVars

\* Variant of TdCancel in which the finally block leaves the dispatcher running.
TdCancel_notCancelled(inflightDelivered) ==
    /\ pc = "td_cancel"
    /\ pc' = "td_stop"
    /\ ~inflightDelivered
    /\ UNCHANGED <<variant, calls, isolationVars, summaryVars, stopEvt, raised, exitPath, is_listening, stream, recognizer,
                   stopCalls, closeCalls, wsCloseCalls, client_state, sockOpen, appClosed,
                   written, nInputs, sendTasks, nEvt, sent, lost>>
    /\ UNCHANGED queueVars

\* message_processor_task.cancel() and the await of the task (queue variant, when
\* the task was created): CancelledError ends the dispatcher at its await, and
\* with it a correction call in flight.  A write in flight has reached the
\* client or not.
TdCancel(inflightDelivered) ==
    /\ pc = "td_cancel"
    /\ pc' = "td_stop"
    /\ inflightDelivered => task = "sending"
    /\ IF task = "none"
       THEN UNCHANGED <<task, dmsg, corr, sent, lost>>
       ELSE /\ task' = "cancelled"
            /\ corr' = corr
            /\ dmsg' = NoMsg
            /\ sent' = IF inflightDelivered THEN Delivered(dmsg, "dispatcher") ELSE sent
            /\ lost' = IF task = "sending" /\ ~inflightDelivered
                       THEN lost \cup {[m |-> dmsg, why |-> "cancelled"]} ELSE lost
    /\ UNCHANGED <<variant, calls, isolationVars, summaryVars, stopEvt, raised, exitPath, is_listening, stream, recognizer, stopCalls,
                   closeCalls, wsCloseCalls, client_state, sockOpen, appClosed, written,
                   nInputs, sendTasks, nEvt, message_queue,
                   processing_queue, qseq>>

\* Variant of TdStop in which the finally block goes on without stopping the
\* recognizer.
TdStop_skipped(raises) ==
    /\ pc = "td_stop"
    /\ pc' = "td_close"
    /\ ~raises
    /\ UNCHANGED <<variant, calls, isolationVars, summaryVars, stopEvt, raised, exitPath, is_listening, stream, recognizer, stopCalls,
                   closeCalls, wsCloseCalls, client_state, sockOpen, appClosed, written,
                   nInputs, sendTasks, sent, lost, nEvt>>
    /\ UNCHANGED queueVars

\* Variant of TdStop in which an exception of the stop call leaves the finally
\* block.
TdStop_fatal(raises) ==
    /\ pc = "td_stop"
    /\ pc' = IF raises THEN "closed" ELSE "td_close"
    /\ raises => recognizer # "none" /\ nInputs < MaxInputs
    /\ stopCalls' = IF recognizer # "none" THEN stopCalls + 1 ELSE stopCalls
    /\ recognizer' = IF recognizer # "none" /\ ~raises THEN "stopped" ELSE recognizer
    /\ raised' = IF raises THEN raised \cup {"stop"} ELSE raised
    /\ nInputs' = IF raises THEN nInputs + 1 ELSE nInputs
    /\ UNCHANGED <<variant, calls, isolationVars, summaryVars, stopEvt, exitPath, is_listening, stream, closeCalls, wsCloseCalls,
                   client_state, sockOpen, appClosed, written,
                   sendTasks, sent, lost, nEvt>>
    /\ UNCHANGED queueVars

\* `if speech_recognizer: stop_continuous_recognition()`, an exception logged.
TdStop(raises) ==
    /\ pc = "td_stop"
    /\ pc' = "td_close"
    /\ raises => recognizer # "none" /\ nInputs < MaxInputs
    /\ stopCalls' = IF recognizer # "none" THEN stopCalls + 1 ELSE stopCalls
    /\ recognizer' = IF recognizer # "none" /\ ~raises THEN "stopped" ELSE recognizer
    /\ raised' = IF raises THEN raised \cup {"stop"} ELSE raised
    /\ nInputs' = IF raises THEN nInputs + 1 ELSE nInputs
    /\ UNCHANGED <<variant, calls, isolationVars, summaryVars, stopEvt, exitPath, is_listening, stream, closeCalls, wsCloseCalls,
                   client_state, sockOpen, appClosed, written,
                   sendTasks, sent, lost, nEvt>>
    /\ UNCHANGED queueVars

\* `if stream: stream.close()`, an exception logged.
TdClose(raises) ==
    /\ pc = "td_close"
    /\ pc' = "td_ws"
    /\ raises => stream # "none" /\ nInputs < MaxInputs
    /\ closeCalls' = IF stream # "none" THEN closeCalls + 1 ELSE closeCalls
    /\ stream' = IF stream # "none" /\ ~raises THEN "closed" ELSE stream
    /\ raised' = IF raises THEN raised \cup {"close"} ELSE raised
    /\ nInputs' = IF raises THEN nInputs + 1 ELSE nInputs
    /\ UNCHANGED <<variant, calls, isolationVars, summaryVars, stopEvt, exitPath, is_listening, recognizer, stopCalls, wsCloseCalls,
                   client_state, sockOpen, appClosed, written,
                   sendTasks, sent, lost, nEvt>>
    /\ UNCHANGED queueVars

\* Variant of TdWs that calls websocket.close whatever the client state.
TdWs_unconditional ==
    /\ pc = "td_ws"
    /\ pc' = "td_ws_w"
    /\ wsCloseCalls' = wsCloseCalls + 1
    /\ UNCHANGED <<variant, calls, isolationVars, summaryVars, stopEvt, raised, exitPath, is_listening, stream, recognizer, stopCalls,
                   closeCalls, client_state, sockOpen, appClosed, written, nInputs, sendTasks, sent, lost, nEvt>>
    /\ UNCHANGED queueVars

\* `if websocket.client_state != DISCONNECTED: await websocket.close(code=1000)`
TdWs ==
    /\ pc = "td_ws"
    /\ pc' = IF client_state # "DISCONNECTED" THEN "td_ws_w" ELSE "closed"
    /\ wsCloseCalls' = IF client_state # "DISCONNECTED" THEN wsCloseCalls + 1 ELSE wsCloseCalls
    /\ UNCHANGED <<variant, calls, isolationVars, summaryVars, stopEvt, raised, exitPath, is_listening, stream, recognizer, stopCalls,
                   closeCalls, client_state, sockOpen, appClosed, written, nInputs, sendTasks, sent, lost, nEvt>>
    /\ UNCHANGED queueVars

\* websocket.close returns or raises (logged); the close frame was handed over.
TdWsDone ==
    /\ pc = "td_ws_w"
    /\ pc' = "closed"
    /\ appClosed' = TRUE
    /\ UNCHANGED <<variant, calls, isolationVars, summaryVars, stopEvt, raised, exitPath, is_listening, stream, recognizer, stopCalls,
                   closeCalls, wsCloseCalls, client_state, sockOpen, written, nInputs, sendTasks, sent, lost, nEvt>>
    /\ UNCHANGED queueVars

-----------------------------------------------------------------------------
\* The recognition engine's callbacks (foreign threads)

EngineRaises == recognizer = "running" /\ nInputs < MaxInputs

\* Variant of QueuePut for a channel of capacity one that makes room by
\* discarding its oldest message, whatever its type.
QueuePut_dropOldest(q, m, n) ==
    IF q = <<>> THEN <<[m EXCEPT !.seq = n]>> ELSE Append(Tail(q), [m EXCEPT !.seq = n])

\* message_queue.put(m): m joins the tail with the next put number; the queue
\* has no capacity limit.
QueuePut(q, m, n) == Append(q, [m EXCEPT !.seq = n])

\* asyncio.create_task(safe_send(m)) in a callback of the direct variant: the
\* task joins the loop's tasks, or create_task raises RuntimeError because the
\* calling thread runs no event loop and nothing is sent.
CreateSendTask(m, created) ==
    sendTasks' = IF created THEN Append(sendTasks, [m |-> m, st |-> "new"]) ELSE sendTasks

\* Variant of recognizing_cb without the test of is_listening.
recognizing_cb_unguarded(text, created) ==
    /\ EngineRaises
    /\ nEvt' = nEvt + 1
    /\ nInputs' = nInputs + 1
    /\ IF text # ""
       THEN IF variant = "queue"
            THEN /\ ~created
                 /\ message_queue' = QueuePut(message_queue, InterimMsg(text, nEvt + 1), qseq + 1)
                 /\ qseq' = qseq + 1
                 /\ UNCHANGED sendTasks
            ELSE /\ CreateSendTask(InterimMsg(text, nEvt + 1), created)
                 /\ UNCHANGED <<message_queue, qseq>>
       ELSE /\ ~created
            /\ UNCHANGED <<message_queue, qseq, sendTasks>>
    /\ UNCHANGED <<variant, calls, isolationVars, summaryVars, stopEvt, raised, pc, exitPath, is_listening, stream, recognizer, stopCalls,
                   closeCalls, wsCloseCalls, client_state, sockOpen, appClosed, task,
                   dmsg, corr, processing_queue, sent, lost, written>>

\* recognizing_cb: an interim result.
recognizing_cb(text, created) ==
    /\ EngineRaises
    /\ nEvt' = nEvt + 1
    /\ nInputs' = nInputs + 1
    /\ IF is_listening /\ text # ""
       THEN IF variant = "queue"
            THEN /\ ~created
                 /\ message_queue' = QueuePut(message_queue, InterimMsg(text, nEvt + 1), qseq + 1)
                 /\ qseq' = qseq + 1
                 /\ UNCHANGED sendTasks
            ELSE /\ CreateSendTask(InterimMsg(text, nEvt + 1), created)
                 /\ UNCHANGED <<message_queue, qseq>>
       ELSE /\ ~created
            /\ UNCHANGED <<message_queue, qseq, sendTasks>>
    /\ UNCHANGED <<variant, calls, isolationVars, summaryVars, stopEvt, raised, pc, exitPath, is_listening, stream, recognizer, stopCalls,
                   closeCalls, wsCloseCalls, client_state, sockOpen, appClosed, task,
                   dmsg, corr, processing_queue, sent, lost, written>>

\* Variant of recognized_cb (queue variant) that hands the utterance over twice.
recognized_cb_twice(text, lang, created) ==
    /\ EngineRaises
    /\ variant = "queue" /\ ~created
    /\ nEvt' = nEvt + 1
    /\ nInputs' = nInputs + 1
    /\ processing_queue' = IF is_listening /\ text # ""
                           THEN processing_queue \o <<Utterance(text, lang, nEvt + 1),
                                                      Utterance(text, lang, nEvt + 1)>>
                           ELSE processing_queue
    /\ UNCHANGED <<variant, calls, isolationVars, summaryVars, stopEvt, raised, pc, exitPath, is_listening, stream, recognizer, stopCalls,
                   closeCalls, wsCloseCalls, client_state, sockOpen, appClosed, task,
                   dmsg, corr, message_queue, qseq, sent, lost, written, sendTasks>>

\* recognized_cb: a final result.
recognized_cb(text, lang, created) ==
    /\ EngineRaises
    /\ nEvt' = nEvt + 1
    /\ nInputs' = nInputs + 1
    /\ IF is_listening /\ text # ""
       THEN IF variant = "queue"
            THEN /\ ~created
                 /\ processing_queue' = Append(processing_queue, Utterance(text, lang, nEvt + 1))
                 /\ UNCHANGED sendTasks
            ELSE /\ CreateSendTask(FinalMsg(Utterance(text, lang, nEvt + 1)), created)
                 /\ UNCHANGED processing_queue
       ELSE /\ ~created
            /\ UNCHANGED <<processing_queue, sendTasks>>
    /\ UNCHANGED <<variant, calls, isolationVars, summaryVars, stopEvt, raised, pc, exitPath, is_listening, stream, recognizer, stopCalls,
                   closeCalls, wsCloseCalls, client_state, sockOpen, appClosed, task,
                   dmsg, corr, message_queue, qseq, sent, lost, written>>

\* Variant of canceled_cb in which reason Error ends the session.
canceled_cb_stops(reason, created) ==
    /\ EngineRaises
    /\ ~created
    /\ nEvt' = nEvt + 1
    /\ nInputs' = nInputs + 1
    /\ is_listening' = (is_listening /\ reason # "Error")
    /\ UNCHANGED <<variant, calls, isolationVars, summaryVars, stopEvt, raised, pc, exitPath, stream, recognizer, stopCalls,
                   closeCalls, wsCloseCalls, client_state, sockOpen, appClosed, sendTasks,
                   sent, lost, written>>
    /\ UNCHANGED queueVars

\* canceled_cb: the engine cancelled recognition; only reason Error is reported.
canceled_cb(reason, created) ==
    /\ EngineRaises
    /\ nEvt' = nEvt + 1
    /\ nInputs' = nInputs + 1
    /\ IF is_listening /\ reason = "Error"
       THEN IF variant = "queue"
            THEN /\ ~created
                 /\ message_queue' = QueuePut(message_queue, RecognitionErrorMsg(nEvt + 1), qseq + 1)
                 /\ qseq' = qseq + 1
                 /\ UNCHANGED sendTasks
            ELSE /\ CreateSendTask(RecognitionErrorMsg(nEvt + 1), created)
                 /\ UNCHANGED <<message_queue, qseq>>
       ELSE /\ ~created
            /\ UNCHANGED <<message_queue, qseq, sendTasks>>
    /\ UNCHANGED <<variant, calls, isolationVars, summaryVars, stopEvt, raised, pc, exitPath, is_listening, stream, recognizer, stopCalls,
                   closeCalls, wsCloseCalls, client_state, sockOpen, appClosed, task,
                   dmsg, corr, processing_queue, sent, lost, written>>

-----------------------------------------------------------------------------
\* The dispatcher task process_messages (queue variant)

\* Variant of QueueGet that hands out the newest message.
QueueGet_newest(q) == q[Len(q)]

\* message_queue.get_nowait(): the oldest message, which leaves the queue.
QueueGet(q) == Head(q)
QueueRest(q) == Tail(q)

\* Variant of ProcessingStep that takes the utterance that arrived last.
ProcessingStep_newest(mq) ==
    IF processing_queue = <<>>
    THEN /\ message_queue' = mq
         /\ task' = "ready"
         /\ UNCHANGED <<processing_queue, corr, qseq>>
    ELSE LET u == processing_queue[Len(processing_queue)] IN
         /\ processing_queue' = SubSeq(processing_queue, 1, Len(processing_queue) - 1)
         /\ message_queue' = QueuePut(mq, FinalOriginalMsg(u), qseq + 1)
         /\ qseq' = qseq + 1
         /\ corr' = IF IsBlank(u.text) THEN NoUtt ELSE u
         /\ task' = IF IsBlank(u.text) THEN "ready" ELSE "correcting"

\* The second half of one loop iteration: one utterance is taken from
\* processing_queue and process_final_text is awaited.  process_final_text puts
\* final_original on mq and awaits get_corrected_text, which returns at once for
\* a blank text and otherwise suspends on the HTTP call; with no utterance the
\* task sleeps until its next iteration.
ProcessingStep(mq) ==
    IF processing_queue = <<>>
    THEN /\ message_queue' = mq
         /\ task' = "ready"
         /\ UNCHANGED <<processing_queue, corr, qseq>>
    ELSE LET u == Head(processing_queue) IN
         /\ processing_queue' = Tail(processing_queue)
         /\ message_queue' = QueuePut(mq, FinalOriginalMsg(u), qseq + 1)
         /\ qseq' = qseq + 1
         /\ corr' = IF IsBlank(u.text) THEN NoUtt ELSE u
         /\ task' = IF IsBlank(u.text) THEN "ready" ELSE "correcting"

\* One loop iteration up to its first await: with a message queued it is taken
\* and, unless the client state is DISCONNECTED, its write begins; otherwise the
\* iteration goes on to the processing queue.
DispatcherIterate ==
    /\ task = "ready"
    /\ Yielded
    /\ is_listening
    /\ IF message_queue # <<>> /\ client_state # "DISCONNECTED"
       THEN /\ dmsg' = QueueGet(message_queue)
            /\ message_queue' = QueueRest(message_queue)
            /\ task' = "sending"
            /\ UNCHANGED <<processing_queue, corr, qseq, lost>>
       ELSE /\ ProcessingStep(IF message_queue = <<>> THEN message_queue
                              ELSE QueueRest(message_queue))
            /\ lost' = IF message_queue = <<>> THEN lost
                       ELSE lost \cup {[m |-> QueueGet(message_queue), why |-> "skipped"]}
            /\ UNCHANGED dmsg
    /\ UNCHANGED <<variant, calls, isolationVars, summaryVars, stopEvt, raised, pc, exitPath, is_listening, stream, recognizer, stopCalls,
                   closeCalls, wsCloseCalls, client_state, sockOpen, appClosed,
                   sendTasks, sent, written, nEvt, nInputs>>

\* The dispatcher's write returns: the message is with the client and the
\* iteration goes on; or send_json raised, the message is gone, the error is
\* logged and the task sleeps before its next iteration.
DispatcherSendDone(o) ==
    /\ task = "sending"
    /\ Yielded
    /\ o \in SendOutcomes
    /\ SocketAfterSend(o)
    /\ dmsg' = NoMsg
    /\ IF o = "ok"
       THEN /\ sent' = Delivered(dmsg, "dispatcher")
            /\ ProcessingStep(message_queue)
            /\ UNCHANGED lost
       ELSE /\ lost' = lost \cup {[m |-> dmsg, why |-> o]}
            /\ task' = "ready"
            /\ UNCHANGED <<sent, message_queue, processing_queue, corr, qseq>>
    /\ UNCHANGED <<variant, calls, isolationVars, summaryVars, stopEvt, raised, pc, exitPath, is_listening, stream, recognizer, stopCalls, closeCalls,
                   wsCloseCalls, client_state, appClosed, sendTasks, written, nEvt>>

\* What the POST to /correct-text does: a 200 response with the same or with a
\* changed text, another status, the 5 s timeout of the request, or another
\* exception (transport error, a body without "corrected").
CorrectionOutcomes == {"ok_same", "ok_changed", "status_not_200", "timeout", "exception"}
Corrected(text) == IF text = "a" THEN "A" ELSE text

\* Variant of get_corrected_text that hands back no text when the call fails.
get_corrected_text_failClosed(text, outcome) ==
    IF outcome \in {"ok_same", "ok_changed"} THEN Corrected(text) ELSE ""

\* get_corrected_text: a blank text is returned without a call; otherwise the
\* text of a 200 response, and the original text on any other status and on any
\* exception.
get_corrected_text(text, outcome) ==
    IF IsBlank(text) THEN text
    ELSE IF outcome = "ok_changed" THEN Corrected(text) ELSE text

\* Variant of PutCorrected that puts final_corrected after every correction.
PutCorrected_always(q, u, corrected, n) == QueuePut(q, FinalCorrectedMsg(u, corrected), n)

\* Variant of PutCorrected that puts final_corrected at the head of the queue.
PutCorrected_front(q, u, corrected, n) ==
    IF corrected # u.text
    THEN <<[FinalCorrectedMsg(u, corrected) EXCEPT !.seq = n]>> \o q
    ELSE q

\* process_final_text after the correction returned: final_corrected is put when
\* the corrected text differs from the original.
PutCorrected(q, u, corrected, n) ==
    IF corrected # u.text THEN QueuePut(q, FinalCorrectedMsg(u, corrected), n) ELSE q

\* The correction call returns and the dispatcher's iteration ends.
CorrectionDone(outcome) ==
    /\ task = "correcting"
    /\ Yielded
    /\ outcome \in CorrectionOutcomes
    /\ LET corrected == get_corrected_text(corr.text, outcome) IN
       /\ message_queue' = PutCorrected(message_queue, corr, corrected, qseq + 1)
       /\ qseq' = IF corrected # corr.text THEN qseq + 1 ELSE qseq
    /\ corr' = NoUtt
    /\ task' = "ready"
    /\ UNCHANGED <<variant, calls, isolationVars, summaryVars, stopEvt, raised, pc, exitPath, is_listening, stream, recognizer, stopCalls,
                   closeCalls, wsCloseCalls, client_state, sockOpen, appClosed, dmsg,
                   processing_queue, sendTasks, sent, lost, written, nEvt, nInputs>>

\* process_final_text as one call on an empty channel: what it has put on
\* message_queue when it returns.
process_final_text(u, outcome) ==
    PutCorrected(QueuePut(<<>>, FinalOriginalMsg(u), 1), u,
                 get_corrected_text(u.text, outcome), 2)

-----------------------------------------------------------------------------
\* The safe_send tasks (direct variant)

Remove(s, i) == SubSeq(s, 1, i - 1) \o SubSeq(s, i + 1, Len(s))
FirstWith(st) ==
    LET I == {i \in 1..Len(sendTasks) : sendTasks[i].st = st}
    IN  IF I = {} THEN 0 ELSE CHOOSE i \in I : \A j \in I : i <= j
LockHeld == \E i \in 1..Len(sendTasks) : sendTasks[i].st \in {"sending", "waiting"}

\* The oldest task not yet run starts: it returns when is_listening is false,
\* otherwise it enters `async with ws_lock` and begins its write, or waits for
\* the lock behind the tasks that asked for it earlier.
SendTaskStart ==
    /\ Yielded
    /\ FirstWith("new") # 0
    /\ LET i == FirstWith("new") IN
       sendTasks' = IF ~is_listening THEN Remove(sendTasks, i)
                    ELSE [sendTasks EXCEPT ![i].st = IF LockHeld THEN "waiting" ELSE "sending"]
    /\ UNCHANGED <<variant, calls, isolationVars, summaryVars, stopEvt, raised, pc, exitPath, is_listening, stream, recognizer, stopCalls,
                   closeCalls, wsCloseCalls, client_state, sockOpen, appClosed, sent,
                   lost, written, nEvt, nInputs>>
    /\ UNCHANGED queueVars

\* The lock passes to the longest-waiting task.
PassLock(s) ==
    LET I == {i \in 1..Len(s) : s[i].st = "waiting"}
    IN  IF I = {} THEN s
        ELSE [s EXCEPT ![CHOOSE i \in I : \A j \in I : i <= j].st = "sending"]

\* The write of the task holding the lock returns or raises; on any exception
\* safe_send sets is_listening to False.
SendTaskDone(o) ==
    /\ Yielded
    /\ FirstWith("sending") # 0
    /\ o \in SendOutcomes
    /\ SocketAfterSend(o)
    /\ LET i == FirstWith("sending") IN
       /\ sent' = IF o = "ok" THEN Delivered(sendTasks[i].m, "send_task") ELSE sent
       /\ lost' = IF o = "ok" THEN lost ELSE lost \cup {[m |-> sendTasks[i].m, why |-> o]}
       /\ sendTasks' = PassLock(Remove(sendTasks, i))
    /\ is_listening' = (is_listening /\ o = "ok")
    /\ UNCHANGED <<variant, calls, isolationVars, summaryVars, stopEvt, raised, pc, exitPath, stream, recognizer, stopCalls, closeCalls,
                   wsCloseCalls, client_state, appClosed, written, nEvt>>
    /\ UNCHANGED queueVars

-----------------------------------------------------------------------------
\* The correction of final utterances, call by call

\* The texts recognized_cb hands on (never the empty text) and the languages it
\* attaches: the two configured for detection, or "unknown".
CallTexts == {" ", "a"}
CallLanguages == {"en-US", "zh-CN", "unknown"}

sessionVars == <<variant, pc, exitPath, is_listening, stream, recognizer, stopCalls,
                 closeCalls, raised, wsCloseCalls, client_state, sockOpen, appClosed,
                 task, dmsg, corr, message_queue, processing_queue, qseq, sendTasks,
                 sent, lost, written, nEvt, nInputs, stopEvt>>

\* One call of process_final_text for a final utterance, with what the
\* correction service did: the text get_corrected_text returned and the messages
\* put on the channel are recorded.
Call(text, lang, outcome) ==
    /\ Len(calls) < MaxCalls
    /\ LET u == Utterance(text, lang, Len(calls) + 1) IN
       calls' = Append(calls, [u |-> u, outcome |-> outcome,
                               result |-> get_corrected_text(text, outcome),
                               puts |-> process_final_text(u, outcome)])
    /\ UNCHANGED <<sessionVars, isolationVars, summaryVars>>

CorrectionInit == Init /\ variant = "queue"
CorrectionNext ==
    \E text \in CallTexts, lang \in CallLanguages, outcome \in CorrectionOutcomes :
        Call(text, lang, outcome)
CorrectionSpec == CorrectionInit /\ [][CorrectionNext]_vars

-----------------------------------------------------------------------------
\* The specification

HandlerStep ==
    \/ \E outcome \in {"ok", "stream_raises", "recognizer_raises"} : Setup(outcome)
    \/ \E raises \in BOOLEAN : Start(raises)
    \/ \E o \in {"ok", "transient", "closed"} : HandlerSendDone(o)
    \/ TdMark
    \/ \E delivered \in BOOLEAN : TdCancel(delivered)
    \/ \E raises \in BOOLEAN : TdStop(raises)
    \/ \E raises \in BOOLEAN : TdClose(raises)
    \/ TdWs
    \/ TdWsDone

Next ==
    \/ HandlerStep
    \/ \E data \in Frames, convFails \in BOOLEAN, writeRaises \in BOOLEAN :
          RecvFrame(data, convFails, writeRaises)
    \/ RecvTimeout
    \/ RecvDisconnect
    \/ RecvError
    \/ Cancel
    \/ \E text \in Texts, created \in BOOLEAN : recognizing_cb(text, created)
    \/ \E text \in Texts, lang \in Languages, created \in BOOLEAN :
          recognized_cb(text, lang, created)
    \/ \E reason \in {"Error", "EndOfStream"}, created \in BOOLEAN :
          canceled_cb(reason, created)
    \/ DispatcherIterate
    \/ \E o \in {"ok", "transient", "closed"} : DispatcherSendDone(o)
    \/ \E outcome \in CorrectionOutcomes : CorrectionDone(outcome)
    \/ SendTaskStart
    \/ \E o \in {"ok", "transient", "closed"} : SendTaskDone(o)

Spec == Init /\ [][Next]_vars

\* The handler coroutine is scheduled until it returns: a send, a task await
\* and the engine calls of the finally block all come back, and the receive of
\* the inbound loop waits a bounded time (asyncio.wait_for) before the loop
\* tests is_listening again.
FairSpec == Spec /\ WF_vars(HandlerStep) /\ WF_vars(RecvTimeout)

-----------------------------------------------------------------------------
\* Properties

Positions == 1..Len(sent)
IsOriginalOf(m, e) == m.type = "final_original" /\ m.evt = e
IsCorrectedOf(m, e) == m.type = "final_corrected" /\ m.evt = e
QueuedOriginalOf(e) == \E k \in 1..Len(message_queue) : IsOriginalOf(message_queue[k], e)

C2_EveryExitReachesClosed ==
    (exitPath # "none" \/ ~is_listening) ~> (pc = "closed" /\ ~is_listening)

\* C2 witness: a session whose flag was cleared by a failed write of a safe_send
\* task has left its loop and returned.
C2_Witness == pc = "closed" /\ exitPath = "not_listening" /\ ~is_listening

C4_RecognitionOrderKept ==
    \A i \in Positions, j \in Positions :
        (/\ i < j
         /\ sent[i].m.type \in {"interim", "final", "final_original"}
         /\ sent[j].m.type \in {"interim", "final", "final_original"})
        => sent[i].m.evt <= sent[j].m.evt

\* C5: the messages the dispatcher wrote reached the client in the order of
\* their puts on message_queue, none of them twice.
C5_ChannelFifo ==
    \A i \in Positions, j \in Positions :
        (i < j /\ sent[i].by = "dispatcher" /\ sent[j].by = "dispatcher")
        => sent[i].m.seq < sent[j].m.seq

\* C5 witness: the dispatcher has written two messages of the channel.
C5_Witness ==
    \E i \in Positions, j \in Positions :
        i < j /\ sent[i].by = "dispatcher" /\ sent[j].by = "dispatcher"

\* C6: while the correction of an utterance is in flight and its final_original
\* waits on the channel of a listening session, the dispatcher is free to take
\* the next message: the write of final_original does not wait for the correction.
C6_OriginalNotHeldByCorrection ==
    (pc = "recv" /\ is_listening /\ corr # NoUtt /\ QueuedOriginalOf(corr.evt))
    => ENABLED DispatcherIterate

\* C7: while a correction is in flight, a message of a later recognition event
\* that is already on the channel can be written: the dispatcher is not
\* suspended until the correction returns.
C7_LaterResultsNotBlocked ==
    (/\ pc = "recv" /\ is_listening /\ corr # NoUtt
     /\ \E k \in 1..Len(message_queue) : message_queue[k].evt > corr.evt)
    => ENABLED (DispatcherIterate /\ task' = "sending")

\* C8: no message reached the client through a write of the inbound loop, and at
\* no time are two writes to the connection in progress.
C8_OnlyDispatcherWrites ==
    /\ \A i \in Positions : sent[i].by # "inbound_loop"
    /\ Cardinality(Writers) <= 1

\* C9: a step in which a write of the dispatcher (or of a safe_send task) fails
\* because the client is gone leaves is_listening false and the dispatcher no
\* longer running.
C9_ClosedWriteStopsDispatcher ==
    [][\A l \in lost' \ lost :
          l.why = "closed" => (~is_listening' /\ task' \notin {"ready", "sending", "correcting"})]_vars

\* C10: a step in which a write fails while the socket is still open leaves
\* is_listening as it was.
C10_TransientFailureKeepsListening ==
    [][\A l \in lost' \ lost : l.why = "transient" => is_listening' = is_listening]_vars

ResultTypes == {"interim", "final", "final_original"}

\* C11: when a session ended by a stop frame has closed, no interim or final
\* result of an engine event raised before the stop frame is left undelivered:
\* none waits on message_queue, on processing_queue or in a safe_send task, and
\* none was dropped by the cancelled dispatcher.  (Results whose write failed are
\* not counted.)
C11_ResultsBeforeStopDelivered ==
    (pc = "closed" /\ exitPath = "stop") =>
        /\ \A k \in 1..Len(message_queue) :
              message_queue[k].type \in ResultTypes => message_queue[k].evt > stopEvt
        /\ \A k \in 1..Len(processing_queue) : processing_queue[k].evt > stopEvt
        /\ \A k \in 1..Len(sendTasks) :
              sendTasks[k].m.type \in ResultTypes => sendTasks[k].m.evt > stopEvt
        /\ \A l \in lost :
              (l.why \in {"cancelled", "skipped"} /\ l.m.type \in ResultTypes)
              => l.m.evt > stopEvt

IsFinalMsg(m) == m.type \in {"final", "final_original", "final_corrected"}
InQueue(q, m) == \E k \in 1..Len(q) : q[k] = m

\* C12: the channel never drops a final.  In every step each final message on
\* message_queue stays on it or is the message the dispatcher takes for writing,
\* each utterance on processing_queue stays on it or has its final_original put
\* on message_queue, and the message of a put is on message_queue after the put,
\* however many interim messages are queued.
C12_FinalNeverDropped ==
    [][/\ \A k \in 1..Len(message_queue) :
             IsFinalMsg(message_queue[k]) =>
                 \/ InQueue(message_queue', message_queue[k])
                 \/ (task' = "sending" /\ dmsg' = message_queue[k])
       /\ \A k \in 1..Len(processing_queue) :
             \/ InQueue(processing_queue', processing_queue[k])
             \/ \E j \in 1..Len(message_queue') :
                    IsOriginalOf(message_queue'[j], processing_queue[k].evt)
       /\ qseq' # qseq => \E j \in 1..Len(message_queue') : message_queue'[j].seq = qseq'
      ]_vars

\* C12 witness: a final_original was put on a channel that holds an older
\* interim message still waiting to be written.
C12_Witness ==
    \E i \in 1..Len(message_queue), j \in 1..Len(message_queue) :
        /\ i < j
        /\ message_queue[i].type = "interim"
        /\ message_queue[j].type = "final_original"

TornDown == pc \in {"td_stop", "td_close", "td_ws", "td_ws_w", "closed"}
CorrectedAnywhere(e) ==
    \/ \E k \in 1..Len(message_queue) : IsCorrectedOf(message_queue[k], e)
    \/ \E k \in Positions : IsCorrectedOf(sent[k].m, e)
    \/ IsCorrectedOf(dmsg, e)
    \/ \E l \in lost : IsCorrectedOf(l.m, e)

\* C13: once the finally block is past its cancellation step the dispatcher no
\* longer runs (it was cancelled, or never created), the utterance whose
\* correction was in flight at that moment has no final_corrected message
\* anywhere, and from then on nothing is put on message_queue and the client
\* receives nothing from the dispatcher and no final_corrected message.
C13_CancelledCorrectionStaysSilent ==
    /\ [](TornDown =>
            /\ task \in {"none", "cancelled"}
            /\ (task = "cancelled" /\ corr # NoUtt) => ~CorrectedAnywhere(corr.evt))
    /\ [][TornDown =>
             /\ message_queue' = message_queue /\ qseq' = qseq
             /\ \A k \in (Len(sent) + 1)..Len(sent') :
                    sent'[k].by # "dispatcher" /\ sent'[k].m.type # "final_corrected"]_vars

\* C13 witness: the session has closed after its teardown cancelled the
\* dispatcher while the correction of an utterance was in flight.
C13_Witness ==
    pc = "closed" /\ task = "cancelled" /\ corr # NoUtt /\ ~IsBlank(corr.text)

QueuedOrScheduled(m) ==
    \/ \E k \in 1..Len(message_queue') : [message_queue'[k] EXCEPT !.seq = 0] = m
    \/ \E k \in 1..Len(sendTasks') : sendTasks'[k].m = m

\* C14: a canceled event with reason Error raised while the session listens is
\* handed on for delivery to the client as an error message (put on
\* message_queue, or given to a safe_send task), and the step leaves
\* is_listening true and the handler where it was.
C14_EngineErrorSurfacedNotFatal ==
    [][(is_listening /\ \E created \in BOOLEAN : canceled_cb("Error", created)) =>
          /\ QueuedOrScheduled(RecognitionErrorMsg(nEvt'))
          /\ is_listening' /\ pc' = pc /\ exitPath' = exitPath]_vars

AudioFrames == {data \in Frames : ~IsStopFrame(data)}

\* C15: a frame whose stream.write raises is skipped and not fatal.  The step
\* pushes nothing, leaves is_listening as it was and reports the error (queue
\* variant: the handler starts writing an error message; direct variant: the
\* error is logged and the loop is back at its top); once the report is written
\* the handler reads again; and every audio frame read without a failure,
\* before or after, is appended to what was pushed.
C15_BadFrameSkippedNotFatal ==
    /\ [][(\E data \in AudioFrames, convFails \in BOOLEAN : RecvFrame(data, convFails, TRUE)) =>
             /\ written' = written
             /\ is_listening' = is_listening
             /\ pc' = IF variant = "queue" THEN "err_w" ELSE LoopTopPc
             /\ variant = "queue" => exitPath' = exitPath]_vars
    /\ [][(/\ pc = "err_w" /\ Len(sent') = Len(sent) + 1
           /\ sent'[Len(sent')].by = "inbound_loop") =>
             (pc' = "recv" /\ is_listening' /\ exitPath' = exitPath /\ written' = written)]_vars
    /\ [][\A data \in AudioFrames, convFails \in BOOLEAN :
             RecvFrame(data, convFails, FALSE) =>
                 written' = Append(written, Chunk(data, convFails))]_vars

\* C15 witness: the write of a frame failed and was reported to the client, an
\* audio frame of the same session was pushed, and the session listens and waits
\* for the next frame.
C15_Witness ==
    /\ pc = "recv" /\ is_listening /\ exitPath = "none"
    /\ \E k \in Positions : sent[k].by = "inbound_loop"
    /\ written # <<>>

ConnectionExits == {"stop", "disconnect", "loop_error", "status_error", "not_listening", "cancel"}
EngineEvent ==
    \/ \E text \in Texts, created \in BOOLEAN : recognizing_cb(text, created)
    \/ \E text \in Texts, lang \in Languages, created \in BOOLEAN : recognized_cb(text, lang, created)
    \/ \E reason \in {"Error", "EndOfStream"}, created \in BOOLEAN : canceled_cb(reason, created)
CorrectionReturn == \E outcome \in CorrectionOutcomes : CorrectionDone(outcome)
AbsorbedLocally ==
    (EngineEvent \/ CorrectionReturn) =>
        (pc' = pc /\ exitPath' = exitPath /\ is_listening' = is_listening)

\* C16 (as claimed): no event of the engine and no return of a correction call,
\* whatever its outcome, moves the handler or clears is_listening, and a closed
\* session was ended by a stop frame, a client disconnect, a failed read or
\* write of the connection, or a cancellation: by nothing else.
C16_OnlyConnectionEndsSession ==
    /\ [][AbsorbedLocally]_vars
    /\ [](pc = "closed" => exitPath \in ConnectionExits)

\* C16 (amended): as above, except that a session also ends when the audio
\* stream or the recognizer cannot be created or recognition cannot be started;
\* such a session has pushed no audio, received no engine event and sent no
\* status message.
C16_OnlyConnectionOrSetupEndsSession ==
    /\ [][AbsorbedLocally]_vars
    /\ [](pc = "closed" =>
            \/ exitPath \in ConnectionExits
            \/ /\ exitPath = "setup_error"
               /\ nEvt = 0 /\ written = <<>>
               /\ \A k \in Positions : sent[k].m.type # "status")

\* C16 witness: the engine reported an error, the client was told, and the
\* session still listens and waits for the next frame.
C16_Witness ==
    /\ pc = "recv" /\ is_listening /\ exitPath = "none"
    /\ \E k \in Positions : sent[k].m.type = "error" /\ sent[k].m.evt > 0

\* The exception handlers of the inbound loop and of the handler ran: an error
\* message was written or its write was tried and failed.
ReportTried == exitPath \in {"setup_error", "loop_error", "status_error"}

\* C17: when a session has closed for another reason than a stop frame or a
\* client disconnect, and the connection could carry a message to the very end
\* (no write of an error message was tried and failed, the socket is open), the
\* client has received an error message written by the handler.
C17_ErrorBeforeUnplannedClose ==
    (/\ pc = "closed" /\ exitPath \notin {"stop", "disconnect"} /\ ~ReportTried
     /\ sockOpen /\ client_state = "CONNECTED")
    => \E k \in Positions :
          sent[k].m.type = "error" /\ sent[k].by \in {"session", "inbound_loop"}

CallIndices == 1..Len(calls)
FailedOutcomes == {"timeout", "status_not_200", "exception"}
HasCorrected(puts) == \E j \in 1..Len(puts) : puts[j].type = "final_corrected"

\* C18: every call of get_corrected_text returns a text, and when the request
\* timed out, got a status other than 200 or raised, that text is the original
\* text, unchanged.
C18_CorrectionFailsOpen ==
    \A k \in CallIndices :
        /\ calls[k].result \in {calls[k].u.text, Corrected(calls[k].u.text)}
        /\ calls[k].outcome \in FailedOutcomes => calls[k].result = calls[k].u.text

\* C18 witness: a correction request for a text that the service would have
\* changed timed out, and the call returned the original text.
C18_Witness ==
    \E k \in CallIndices :
        /\ calls[k].outcome = "timeout"
        /\ Corrected(calls[k].u.text) # calls[k].u.text
        /\ calls[k].result = calls[k].u.text

\* C19: a call of process_final_text whose correction failed, or returned a text
\* identical to the original, has put final_original on the channel and no
\* final_corrected message.
C19_NoCorrectedWhenSameOrFailed ==
    \A k \in CallIndices :
        (calls[k].outcome \in FailedOutcomes \/ calls[k].result = calls[k].u.text) =>
            /\ ~HasCorrected(calls[k].puts)
            /\ calls[k].puts = <<[FinalOriginalMsg(calls[k].u) EXCEPT !.seq = 1]>>

\* C19 witness: for a text the service can change, one call got back the
\* identical text and another call's correction raised; each put final_original
\* alone.
C19_Witness ==
    \E i \in CallIndices, j \in CallIndices :
        /\ calls[i].outcome = "ok_same" /\ calls[j].outcome = "exception"
        /\ Corrected(calls[i].u.text) # calls[i].u.text
        /\ Corrected(calls[j].u.text) # calls[j].u.text
        /\ Len(calls[i].puts) = 1 /\ Len(calls[j].puts) = 1

\* What a timeout of the inbound read must leave alone: everything but the
\* handler's position.
TimeoutLeaves ==
    <<is_listening, stream, recognizer, stopCalls, closeCalls, raised, wsCloseCalls,
      client_state, sockOpen, appClosed, task, dmsg, corr, message_queue,
      processing_queue, qseq, sendTasks, sent, lost, written, nEvt>>

\* C20: a timeout of the inbound read changes no state of the session, sends
\* nothing and puts nothing on a queue; the handler only tests is_listening
\* again: while the flag is true it is back at the read with no exit recorded,
\* and it leaves the loop only when the flag is already false.
C20_TimeoutOnlyRetests ==
    [][RecvTimeout =>
          /\ UNCHANGED TimeoutLeaves
          /\ is_listening => (pc' = "recv" /\ exitPath' = exitPath)
          /\ ~is_listening => (pc' = "td_mark" /\ exitPath' = "not_listening")]_vars

\* C20 witness: a listening session with audio pushed waits in its read, where
\* the timeout can fire and leaves it.
C20_Witness ==
    /\ pc = "recv" /\ is_listening /\ exitPath = "none" /\ written # <<>>
    /\ ENABLED RecvTimeout

\* C21: a frame read by the inbound loop ends the session as a stop signal
\* exactly when it is empty or is the single byte 0; the stop frame is not
\* pushed to the stream, and every other frame (a single non-zero byte, two zero
\* bytes) is pushed as audio unless its write fails, and records no stop.
C21_StopSignalExactlyEmptyOrZeroByte ==
    [][\A data \in Frames, convFails \in BOOLEAN, writeRaises \in BOOLEAN :
          RecvFrame(data, convFails, writeRaises) =>
              IF data = <<>> \/ data = <<0>>
              THEN pc' = "td_mark" /\ exitPath' = "stop" /\ written' = written
              ELSE /\ exitPath' # "stop"
                   /\ ~writeRaises => /\ Len(written') = Len(written) + 1
                                      /\ written'[Len(written')].pcm = data]_vars

\* C21 witness: a single non-zero byte and a frame of two zero bytes were pushed
\* as audio, and then a stop frame ended the session.
C21_Witness ==
    /\ exitPath = "stop"
    /\ \E i \in 1..Len(written), j \in 1..Len(written) :
          written[i].pcm = <<1>> /\ written[j].pcm = <<0, 0>>

-----------------------------------------------------------------------------
\* Concurrent connections.  Every invocation of websocket_transcribe builds
\* its own message_queue, stream and recognizer as locals, and its callbacks
\* and its process_messages close over those locals; the only module-level
\* object the handler uses is the read-only speech_config.

MaxTraffic == 3

\* The identity of the object a constructor call returns: a new one.
NewObject_moduleLevel(objs) == 1
NewObject(objs) == Len(objs) + 1

\* Frames written, messages queued and messages delivered, over all connections.
RECURSIVE TotalLen(_)
TotalLen(objs) == IF objs = <<>> THEN 0 ELSE Len(Head(objs)) + TotalLen(Tail(objs))
Traffic == TotalLen(streams) + TotalLen(queues) + TotalLen(<<clients[1], clients[2]>>)

\* websocket.accept() and the construction of the session's objects.
Accept(c) ==
    /\ conns[c].phase = "idle"
    /\ conns' = [conns EXCEPT ![c] = [phase |-> "open",
                                      message_queue |-> NewObject(queues),
                                      stream |-> NewObject(streams)]]
    /\ queues' = Append(queues, <<>>)
    /\ streams' = Append(streams, <<>>)
    /\ UNCHANGED <<clients, sessionVars, calls, summaryVars>>

\* The inbound loop of connection c writes a frame of its client to its stream.
WriteAudio(c) ==
    /\ conns[c].phase = "open"
    /\ Traffic < MaxTraffic
    /\ streams' = [streams EXCEPT ![conns[c].stream] = Append(@, [speaker |-> c])]
    /\ UNCHANGED <<conns, queues, clients, sessionVars, calls, summaryVars>>

\* The recognizer of connection c consumes audio from the stream it was built
\* on, and its callback puts the result on the queue it closes over.
Recognize(c) ==
    /\ conns[c].phase = "open"
    /\ streams[conns[c].stream] # <<>>
    /\ LET frame == Head(streams[conns[c].stream])
       IN  /\ streams' = [streams EXCEPT ![conns[c].stream] = Tail(@)]
           /\ queues' = [queues EXCEPT ![conns[c].message_queue] =
                            Append(@, [type |-> "recognizing", speaker |-> frame.speaker])]
    /\ UNCHANGED <<conns, clients, sessionVars, calls, summaryVars>>

\* process_messages of connection c: get_nowait on its queue, send on its socket.
DispatchOne(c) ==
    /\ conns[c].phase = "open"
    /\ queues[conns[c].message_queue] # <<>>
    /\ clients' = [clients EXCEPT ![c] = Append(@, Head(queues[conns[c].message_queue]))]
    /\ queues' = [queues EXCEPT ![conns[c].message_queue] = Tail(@)]
    /\ UNCHANGED <<conns, streams, sessionVars, calls, summaryVars>>

\* The handler of connection c returns.
Close(c) ==
    /\ conns[c].phase = "open"
    /\ conns' = [conns EXCEPT ![c].phase = "closed"]
    /\ UNCHANGED <<queues, streams, clients, sessionVars, calls, summaryVars>>

IsolationInit == Init /\ variant = "queue"

IsolationNext ==
    \E c \in Connections :
        \/ Accept(c)
        \/ WriteAudio(c)
        \/ Recognize(c)
        \/ DispatchOne(c)
        \/ Close(c)

IsolationSpec == IsolationInit /\ [][IsolationNext]_vars

\* C22: concurrent sessions are isolated: two accepted connections never share
\* a message queue or a recognition stream, a connection's stream and queue
\* hold only its own client's audio and results, and a client observes only
\* results recognised from its own audio.
C22_SessionsIsolated ==
    /\ \A c \in Connections, d \in Connections :
          (c # d /\ conns[c].phase # "idle" /\ conns[d].phase # "idle") =>
              /\ conns[c].message_queue # conns[d].message_queue
              /\ conns[c].stream # conns[d].stream
    /\ \A c \in Connections :
          /\ \A k \in 1..Len(clients[c]) : clients[c][k].speaker = c
          /\ conns[c].phase # "idle" =>
                /\ \A k \in 1..Len(queues[conns[c].message_queue]) :
                      queues[conns[c].message_queue][k].speaker = c
                /\ \A k \in 1..Len(streams[conns[c].stream]) :
                      streams[conns[c].stream][k].speaker = c

\* Both connections are open at once and each client has observed a result.
C22_Witness ==
    /\ \A c \in Connections : conns[c].phase = "open" /\ Len(clients[c]) >= 1

-----------------------------------------------------------------------------
\* The summary agent (summary_agent.py): segment_blocks folds a transcript
\* into the memory, generate_structured_outline asks the language model for
\* the updated outline.  Each returns a partial state that is merged into the
\* conversation's MeetingState.

MaxOps == 3

\* str.strip(): whitespace removed from both ends only.
IsSpace(ch) == ch \in {" ", NL}

RECURSIVE LStrip(_)
LStrip(s) == IF s # <<>> /\ IsSpace(Head(s)) THEN LStrip(Tail(s)) ELSE s

RECURSIVE RStrip(_)
RStrip(s) == IF s # <<>> /\ IsSpace(s[Len(s)]) THEN RStrip(SubSeq(s, 1, Len(s) - 1)) ELSE s

Strip(s) == RStrip(LStrip(s))

\* str.split("\n"): the lines of s, at least one (the empty text has one
\* empty line).
RECURSIVE Split(_)
Split(s) ==
    IF \A i \in 1..Len(s) : s[i] # NL
    THEN <<s>>
    ELSE LET i == CHOOSE k \in 1..Len(s) : s[k] = NL /\ \A j \in 1..(k - 1) : s[j] # NL
         IN  <<SubSeq(s, 1, i - 1)>> \o Split(SubSeq(s, i + 1, Len(s)))

\* The transcripts a caller hands over: empty, blank, one line, one line with
\* surrounding whitespace, two lines.
Transcripts ==
    {<<>>, <<" ">>, <<"a">>, <<"b">>, <<" ", "a", NL>>, <<"a", NL, "b">>}

\* segment_blocks: the partial state it returns.
segment_blocks_unstripped(st) ==
    [transcript |-> st.transcript,
     memory |-> IF st.transcript # <<>>
                THEN IF st.memory # <<>> THEN st.memory \o <<NL>> \o st.transcript
                                         ELSE st.transcript
                ELSE st.memory]
segment_blocks(st) ==
    LET prev_memory == st.memory
        text == Strip(st.transcript)
        lines == Split(prev_memory)
        updated_memory ==
            IF text # <<>> /\ \A k \in 1..Len(lines) : lines[k] # text
            THEN IF prev_memory # <<>> THEN prev_memory \o <<NL>> \o text ELSE text
            ELSE prev_memory
    IN  [transcript |-> text, memory |-> updated_memory]

\* Outline sections; an id is its path of numbers ("1.1" is <<1, 1>>).
Section(id, content) == [id |-> id, title |-> "t", content |-> content]

\* The outlines a response may carry: none, one section, the section
\* rewritten, parent then child, child before its parent, one id twice.
Outlines ==
    { <<>>,
      <<Section(<<1>>, "x")>>,
      <<Section(<<1>>, "y")>>,
      <<Section(<<1>>, "x"), Section(<<1, 1>>, "x")>>,
      <<Section(<<1, 1>>, "x"), Section(<<1>>, "x")>>,
      <<Section(<<1>>, "x"), Section(<<1>>, "y")>> }

\* json.loads of a text that parses, and json.dumps of a value: dumps lays
\* the value out canonically whatever layout the parsed text had.
json_loads(text) == [root |-> text.root, sections |-> text.sections]
json_dumps(value) == JsonText(TRUE, TRUE, value.root, value.sections)
EmptyList == [root |-> "array", sections |-> <<>>]
EmptyArrayText == JsonText(TRUE, TRUE, "array", <<>>)

\* What client.chat.completions.create does: it raises, or it returns a
\* message without content, or with content that does not parse, or with
\* content that parses (the schema's object around the outline, in the
\* canonical layout or not).
Responses ==
    {[kind |-> "raise", content |-> NoneStructured],
     [kind |-> "none", content |-> NoneStructured],
     [kind |-> "text", content |-> JsonText(FALSE, FALSE, "object", <<>>)]}
    \cup {[kind |-> "text", content |-> JsonText(TRUE, TRUE, "object", o)] : o \in Outlines}
    \cup {[kind |-> "text", content |-> JsonText(TRUE, FALSE, "object", <<Section(<<1>>, "x")>>)]}

\* The outline a structured text stands for; None stands for no section.
OutlineOf(structured) == structured.sections

\* The prompt's two parts: previous_summary_text and the stripped memory.
previous_summary_text(st) ==
    IF st.structured.root # "none" THEN st.structured ELSE EmptyArrayText

\* generate_structured_outline: the partial state it returns for response r.
generate_structured_outline_dropsMemory(st, r) ==
    [structured |-> EmptyArrayText, memory |-> NoText]
generate_structured_outline(st, r) ==
    LET memory == Strip(st.memory)
    IN  IF r.kind \in {"raise", "none"}
        THEN [structured |-> EmptyArrayText, memory |-> memory]
        ELSE LET structured_list ==
                     IF r.content.ok THEN json_loads(r.content) ELSE EmptyList
             IN  [structured |-> json_dumps(structured_list), memory |-> memory]

\* One operation on the conversation, its input and the state around it.
Entry(op, input, before, after) ==
    [op |-> op, input |-> input, before |-> before, after |-> after]

\* appendTranscript: the caller sets the transcript and runs segment_blocks.
AppendTranscript(t) ==
    /\ Len(log) < MaxOps
    /\ LET st == [state EXCEPT !.transcript = t]
           out == segment_blocks(st)
       IN  /\ state' = [st EXCEPT !.transcript = out.transcript, !.memory = out.memory]
           /\ log' = Append(log, Entry("append", [kind |-> "transcript", content |-> t],
                                       state, state'))
    /\ UNCHANGED <<sessionVars, calls, isolationVars>>

\* reconcile: generate_structured_outline runs on the current state.
Reconcile(r) ==
    /\ Len(log) < MaxOps
    /\ LET out == generate_structured_outline(state, r)
       IN  /\ state' = [state EXCEPT !.structured = out.structured, !.memory = out.memory]
           /\ log' = Append(log, Entry("reconcile", r, state, state'))
    /\ UNCHANGED <<sessionVars, calls, isolationVars>>

SummaryInit == Init /\ variant = "queue"

SummaryNext ==
    \/ \E t \in Transcripts : AppendTranscript(t)
    \/ \E r \in Responses : Reconcile(r)

SummarySpec == SummaryInit /\ [][SummaryNext]_vars

-----------------------------------------------------------------------------
\* Claims about the summary agent

ReconcileEntries == {i \in 1..Len(log) : log[i].op = "reconcile"}
AppendEntries == {i \in 1..Len(log) : log[i].op = "append"}
Unparsable(r) == r.kind = "text" /\ ~r.content.ok
CallFailed(r) == r.kind \in {"raise", "none"}

\* C23: when the response of the language model does not parse, reconcile
\* leaves the outline equal to the previous outline, section for section.
C23_ParseFailureKeepsOutline ==
    \A i \in ReconcileEntries :
        Unparsable(log[i].input) =>
            OutlineOf(log[i].after.structured) = OutlineOf(log[i].before.structured)

\* C24: when the call to the language model raises or brings no content,
\* reconcile leaves the outline equal to the previous outline.
C24_CallFailureKeepsOutline ==
    \A i \in ReconcileEntries :
        CallFailed(log[i].input) =>
            OutlineOf(log[i].after.structured) = OutlineOf(log[i].before.structured)

\* C25: appending the same text twice in a row leaves the memory as it was
\* after the first of the two appends, whatever the memory and the text.
C25_ImmediateDuplicateNotAppended ==
    \A i \in AppendEntries :
        (i + 1 \in AppendEntries /\ log[i + 1].input = log[i].input) =>
            log[i + 1].after.memory = log[i].after.memory

\* The lines of a memory, and its most recent line.
LinesOf(memory) == {Split(memory)[k] : k \in 1..Len(Split(memory))}
LastLine(memory) == Split(memory)[Len(Split(memory))]

\* C26: a text that equals an older line of the memory, and not its most
\* recent line, is appended again as a new last line.
C26_OlderLineAppendedAgain ==
    \A i \in AppendEntries :
        LET text == Strip(log[i].input.content)
            memory == log[i].before.memory
        IN  (text # <<>> /\ text \in LinesOf(memory) /\ text # LastLine(memory)) =>
                log[i].after.memory = memory \o <<NL>> \o text

IsPrefix(a, b) == Len(a) <= Len(b) /\ SubSeq(b, 1, Len(a)) = a

\* C27: the memory only grows at its end: whichever of appendTranscript and
\* reconcile runs, the memory before it is a prefix of the memory after it.
C27_MemoryAppendOnly ==
    [][IsPrefix(state.memory, state'.memory)]_vars

\* Two appends each extended the memory and a reconcile ran in between on a
\* memory that was not empty.
C27_Witness ==
    /\ Len(log) = 3
    /\ log[1].op = "append" /\ log[1].after.memory # log[1].before.memory
    /\ log[2].op = "reconcile"
    /\ log[3].op = "append" /\ Len(log[3].after.memory) > Len(log[3].before.memory)

\* An outline whose ids are unique and where a dotted id comes after its parent.
UniqueIds(outline) ==
    \A i \in 1..Len(outline), j \in 1..Len(outline) :
        i # j => outline[i].id # outline[j].id
ParentsFirst(outline) ==
    \A i \in 1..Len(outline) :
        Len(outline[i].id) > 1 =>
            \E j \in 1..(i - 1) :
                outline[j].id = SubSeq(outline[i].id, 1, Len(outline[i].id) - 1)

\* C28: after every reconcile the stored outline has unique section ids and
\* every dotted id appears after its parent, whatever the response was.
C28_StoredOutlineWellFormed ==
    \A i \in ReconcileEntries :
        /\ UniqueIds(OutlineOf(log[i].after.structured))
        /\ ParentsFirst(OutlineOf(log[i].after.structured))

\* C29: a reconcile that follows another reconcile with no transcript appended
\* in between has no new memory, so nothing in it relates to any section: it
\* returns the previous outline, every section as it was and none added.
C29_UnaffectedSectionsPreserved ==
    \A i \in ReconcileEntries :
        (i - 1 \in ReconcileEntries /\ log[i].before.memory = log[i - 1].before.memory) =>
            OutlineOf(log[i].after.structured) = OutlineOf(log[i].before.structured)

\* C30: a reconcile does not change the memory: on success and on every
\* fallback the memory it returns is the memory it read.
C30_ReconcileLeavesMemory ==
    \A i \in ReconcileEntries : log[i].after.memory = log[i].before.memory

\* A padded transcript was appended, then one reconcile succeeded and one
\* fell back, both on the memory that append left.
C30_Witness ==
    /\ Len(log) = 3
    /\ log[1].op = "append" /\ log[1].input.content = <<" ", "a", NL>>
    /\ log[2].op = "reconcile" /\ log[2].input.kind = "text" /\ log[2].input.content.ok
    /\ log[3].op = "reconcile" /\ (CallFailed(log[3].input) \/ Unparsable(log[3].input))
    /\ log[3].after.memory = <<"a">>

DispatcherRunning == task \in {"ready", "sending", "correcting"}

\* C31: the finally block works in a fixed order.  The dispatcher, and with it
\* a correction in flight, is cancelled only once is_listening is false; the
\* recognizer is stopped only after that, with the dispatcher no longer running;
\* the stream is closed only after the stop of the recognizer was called; and
\* the connection is closed only after the close of the stream was called.
C31_TeardownOrder ==
    [][/\ (DispatcherRunning /\ ~DispatcherRunning') =>
              (~is_listening /\ stopCalls = 0 /\ closeCalls = 0 /\ wsCloseCalls = 0)
       /\ stopCalls' > stopCalls =>
              (~is_listening /\ ~DispatcherRunning /\ corr' = corr
               /\ closeCalls = 0 /\ wsCloseCalls = 0)
       /\ closeCalls' > closeCalls =>
              (~is_listening /\ ~DispatcherRunning /\ wsCloseCalls = 0
               /\ (recognizer # "none" => stopCalls = 1))
       /\ wsCloseCalls' > wsCloseCalls =>
              (~is_listening /\ ~DispatcherRunning
               /\ (recognizer # "none" => stopCalls = 1)
               /\ (stream # "none" => closeCalls = 1))]_vars

\* A session whose dispatcher was cancelled while a correction was in flight
\* went through every step of the finally block and closed the connection.
C31_Witness ==
    /\ pc = "closed" /\ task = "cancelled" /\ corr # NoUtt
    /\ stopCalls = 1 /\ closeCalls = 1 /\ wsCloseCalls = 1 /\ appClosed

\* Every message put on the channel so far, wherever it is now: still queued,
\* being written, with the client, or gone with a failed or cancelled write.
ChannelMessages ==
    {message_queue[k] : k \in 1..Len(message_queue)}
    \cup {sent[k].m : k \in 1..Len(sent)}
    \cup {l.m : l \in lost}
    \cup (IF dmsg = NoMsg THEN {} ELSE {dmsg})
Emitted(type, e) == {m \in ChannelMessages : m.type = type /\ m.evt = e}
Waiting(e) == {k \in 1..Len(processing_queue) : processing_queue[k].evt = e}

\* No recognition event has more than one final_original or more than one
\* final_corrected, and none is both waiting and emitted.
AtMostOncePerEvent ==
    \A e \in 1..nEvt :
        /\ Cardinality(Emitted("final_original", e)) + Cardinality(Waiting(e)) <= 1
        /\ Cardinality(Emitted("final_corrected", e)) <= 1
        /\ Emitted("final_corrected", e) # {} => Emitted("final_original", e) # {}

\* C32 (as claimed): each final event with a text is taken for emission, yields
\* exactly one final_original (none is left waiting when the session has
\* closed) and at most one final_corrected, and none is emitted twice.
C32_ExactlyOneOriginalPerFinal ==
    [][/\ AtMostOncePerEvent'
       /\ pc' = "closed" => processing_queue' = <<>>
       /\ \A text \in Texts, lang \in Languages, created \in BOOLEAN :
             (variant = "queue" /\ text # "" /\ recognized_cb(text, lang, created)) =>
                 (Cardinality(Waiting(nEvt)) = 1)']_vars

\* C32 (amended): each final event yields at most one final_original and at
\* most one final_corrected, a final_corrected only with its final_original,
\* and none is emitted twice; an event accepted while the session listens
\* waits exactly once for its final_original.
C32_AtMostOnePerFinal ==
    [][/\ AtMostOncePerEvent'
       /\ \A text \in Texts, lang \in Languages, created \in BOOLEAN :
             (variant = "queue" /\ text # "" /\ is_listening
              /\ recognized_cb(text, lang, created)) =>
                 (Cardinality(Waiting(nEvt)) = 1)']_vars

\* Two final events: the first reached the client as final_original and as
\* final_corrected, once each.
C32_Witness ==
    /\ nEvt >= 2
    /\ \E i \in Positions, j \in Positions :
          /\ IsOriginalOf(sent[i].m, 1) /\ IsCorrectedOf(sent[j].m, 1)
    /\ Cardinality(Emitted("final_original", 1)) = 1
    /\ Cardinality(Emitted("final_corrected", 1)) = 1
    /\ Emitted("final_original", 2) # {}

\* The client has observed nothing ahead of the status message, and no result
\* without the status message before it.
StatusObservedFirst ==
    /\ \A j \in Positions : sent[j].m.type = "status" => j = 1
    /\ \A i \in Positions :
          sent[i].m.type \in ResultTypes \cup {"final_corrected"} =>
              \E j \in 1..(i - 1) : sent[j].m.type = "status"

C34_NoWriteAfterStopOrClose ==
    [][Len(written') > Len(written) =>
          /\ pc = "recv" /\ stream = "open" /\ closeCalls = 0
          /\ exitPath = "none" /\ exitPath' # "stop"]_vars

\* Two frames were pushed, then the stop frame ended the session and the
\* stream was closed.
C34_Witness ==
    /\ exitPath = "stop" /\ Len(written) = 2
    /\ closeCalls = 1 /\ stream = "closed"

\* C35: websocket.close is called only while the client state is not
\* DISCONNECTED and only if it was not called before, so at most once in a
\* session; a session the client has disconnected from is never closed again.
C35_ConnectionClosedAtMostOnce ==
    [][/\ wsCloseCalls' > wsCloseCalls =>
              (client_state # "DISCONNECTED" /\ wsCloseCalls = 0 /\ ~appClosed)
       /\ client_state' = "DISCONNECTED" => (wsCloseCalls' = 0 /\ ~appClosed')
       /\ appClosed' => wsCloseCalls' = 1]_vars

\* A session that pushed audio and was ended by the client's disconnect has
\* returned without a call of websocket.close.
C35_Witness ==
    /\ pc = "closed" /\ exitPath = "disconnect" /\ written # <<>>
    /\ client_state = "DISCONNECTED" /\ wsCloseCalls = 0 /\ closeCalls = 1

\* C36: final utterances are handled one at a time in arrival order: the
\* final_original messages were put on the channel in the order of their
\* events, a final_corrected was put before the final_original of every later
\* event, utterances wait in event order, and only events later than the one
\* being corrected are still waiting.
C36_FinalsInArrivalOrder ==
    /\ \A m \in ChannelMessages, n \in ChannelMessages :
          (/\ m.type \in {"final_original", "final_corrected"}
           /\ n.type = "final_original"
           /\ m.evt < n.evt) => m.seq < n.seq
    /\ \A i \in 1..Len(processing_queue), j \in 1..Len(processing_queue) :
          i < j => processing_queue[i].evt < processing_queue[j].evt
    /\ \A i \in 1..Len(processing_queue) :
          /\ corr # NoUtt => corr.evt < processing_queue[i].evt
          /\ \A m \in ChannelMessages :
                m.type \in {"final_original", "final_corrected"} =>
                    m.evt < processing_queue[i].evt

\* Two final events: final_original and final_corrected of the first and
\* final_original of the second were put on the channel, in this order.
C36_Witness ==
    \E o1 \in Emitted("final_original", 1), c1 \in Emitted("final_corrected", 1),
       o2 \in Emitted("final_original", 2) :
        o1.seq < c1.seq /\ c1.seq < o2.seq

\* A write to the connection begins in this step: by the handler, by the
\* dispatcher, or by a safe_send task that was not writing before.
WriteBegins ==
    \/ pc' \in {"status_w", "err_w", "exc_w"} /\ pc' # pc
    \/ task' = "sending" /\ task # "sending"
    \/ \E i \in 1..Len(sendTasks') :
          /\ sendTasks'[i].st = "sending"
          /\ \A j \in 1..Len(sendTasks) :
                sendTasks[j].m = sendTasks'[i].m => sendTasks[j].st # "sending"

\* C37: once the finally block has closed the connection, no write to it begins.
C37_NoWriteAfterClose ==
    [][appClosed => ~WriteBegins]_vars

\* A recognition callback runs in this step.
CallbackRuns ==
    \/ \E text \in Texts, created \in BOOLEAN : recognizing_cb(text, created)
    \/ \E text \in Texts, lang \in Languages, created \in BOOLEAN :
          recognized_cb(text, lang, created)
    \/ \E reason \in {"Error", "EndOfStream"}, created \in BOOLEAN :
          canceled_cb(reason, created)

\* C38: a recognition callback that runs with is_listening false puts nothing
\* on message_queue or processing_queue and creates no send task.
C38_NoEnqueueAfterTeardownBegan ==
    [][(~is_listening /\ CallbackRuns) =>
          /\ message_queue' = message_queue
          /\ processing_queue' = processing_queue
          /\ qseq' = qseq
          /\ sendTasks' = sendTasks]_vars

\* The finally block has cleared the flag but not yet stopped the recognizer;
\* both events of the session were raised after the stop frame was read, and
\* nothing was ever queued.
C38_Witness ==
    /\ exitPath = "stop" /\ stopEvt = 0 /\ nEvt = 2
    /\ ~is_listening /\ recognizer = "running" /\ stopCalls = 0
    /\ message_queue = <<>> /\ processing_queue = <<>> /\ sendTasks = <<>>
    /\ qseq = 0 /\ lost = {}

\* C39: an exception of stop_continuous_recognition does not keep the finally
\* block from calling stream.close, and an exception of stream.close does not
\* keep it from closing the connection (when the client has not disconnected).
C39_TeardownStepsIndependent ==
    /\ "stop" \in raised =>
          /\ pc \in {"td_close", "td_ws", "td_ws_w", "closed"}
          /\ pc # "td_close" => closeCalls = 1
    /\ "close" \in raised =>
          /\ pc \in {"td_ws", "td_ws_w", "closed"}
          /\ (pc # "td_ws" /\ client_state # "DISCONNECTED") => wsCloseCalls = 1

\* Both the stop of the recognizer and the close of the stream raised, and the
\* handler still closed the connection and returned.
C39_Witness ==
    /\ pc = "closed" /\ raised = {"stop", "close"}
    /\ stopCalls = 1 /\ closeCalls = 1 /\ wsCloseCalls = 1 /\ appClosed

====
